---- MODULE Spec2Model ----
(***************************************************************************)
(* Package views (src/unnamed/part_000): read-only accessors over slices   *)
(* and maps.  Go slices are modelled as headers (ptr, len, cap) into a     *)
(* heap of backing arrays, Go maps as references into a heap of map        *)
(* objects, so that aliasing between the owner, the view and the slices    *)
(* handed to callers is part of the state.                                 *)
(***************************************************************************)
EXTENDS Integers, Sequences, FiniteSets, TLC

VARIABLES
    heap,    \* backing arrays: heap[p] is the array at address p (its length is its capacity)
    S,       \* the owner's slice header
    v,       \* the sequence view's field (a slice header)
    r1, r2,  \* slices returned to callers by AsSlice
    mheap,   \* map objects: mheap[p] is a function from the present keys to values
    M,       \* the owner's map reference (0 is the nil map)
    mv,      \* the mapping view's field (a map reference)
    wrapv,   \* MapFn's conversion function
    rng,     \* the Range call in progress
    wire,    \* bytes produced by the last MarshalJSON
    ret,     \* what the last call was given and what it returned
    gh       \* history: what the owner stored, what the view was built over

vars == <<heap, S, v, r1, r2, mheap, M, mv, wrapv, rng, wire, ret, gh>>

\* ---------------------------------------------------------------- bounds
MaxVal == 1        \* element and map values are 0..MaxVal
MaxCap == 2        \* largest backing array
MaxKey == 2        \* map keys are 1..MaxKey
MaxPayload == 1    \* longest array among the payloads not produced by MarshalJSON

Vals == 0..MaxVal
Keys == 1..MaxKey
Zero == 0          \* the zero value of the element type T

None == <<"none">>
NoRet == [op |-> "none"]
NoRange == [pc |-> "idle"]
NoErr == "nil"
ErrAlreadyInit == "already initialized"
ErrSyntax == "json: syntax error"

\* ---------------------------------------------------------------- slices
NilSlice == [ptr |-> 0, len |-> 0, cap |-> 0]

Arrays == UNION {[1..n -> Vals] : n \in 0..MaxCap}

\* The elements of slice s in heap h, in order.
Contents(h, s) == IF s.ptr = 0 THEN <<>> ELSE SubSeq(h[s.ptr], 1, s.len)

\* The array cells slice s may reach: (address, index) for index < cap.
Cells(s) == IF s.ptr = 0 THEN {} ELSE {<<s.ptr, i>> : i \in 1..s.cap}

\* Go's s[:0:0]: same base address, length 0, capacity 0; nil stays nil.
Reslice00(s) == [ptr |-> s.ptr, len |-> 0, cap |-> 0]

\* Go's s[:0]: same base address, length 0, capacity kept.
Reslice0(s) == [ptr |-> s.ptr, len |-> 0, cap |-> s.cap]

\* Go's built-in append(dst, xs...).  Within capacity the elements are written
\* into dst's array; otherwise a new array is allocated, large enough for the
\* result plus slack spare cells (the growth policy is not part of the
\* language; arrays are kept within MaxCap cells).
GoAppend(h, dst, xs, slack) ==
    LET n == Len(xs)
        need == dst.len + n
        newcap == IF need + slack <= MaxCap THEN need + slack ELSE need
    IN
    IF n = 0 THEN [heap |-> h, s |-> dst]
    ELSE IF dst.len + n <= dst.cap
    THEN [heap |-> [h EXCEPT ![dst.ptr] =
                      [i \in 1..Len(h[dst.ptr]) |->
                          IF i > dst.len /\ i <= dst.len + n
                          THEN xs[i - dst.len] ELSE h[dst.ptr][i]]],
          s |-> [ptr |-> dst.ptr, len |-> dst.len + n, cap |-> dst.cap]]
    ELSE [heap |-> Append(h, [i \in 1..newcap |->
                      IF i <= dst.len THEN h[dst.ptr][i]
                      ELSE IF i <= dst.len + n THEN xs[i - dst.len]
                      ELSE Zero]),
          s |-> [ptr |-> Len(h) + 1, len |-> dst.len + n, cap |-> newcap]]

\* The spare cells a growing append may add.
Slacks == {0, 1}

\* Arrays that no slice header refers to cannot be observed and are dropped;
\* the arrays that remain keep their order.
Live(ss) == {ss[i].ptr : i \in DOMAIN ss} \ {0}
Rank(L, p) == IF p = 0 THEN 0 ELSE Cardinality({q \in L : q <= p})
CompactHeap(h, L) ==
    [j \in 1..Cardinality(L) |-> h[CHOOSE p \in L : Rank(L, p) = j]]
Move(L, s) == [s EXCEPT !.ptr = Rank(L, @)]

\* ---------------------------------------------------------------- encoding/json
DigitChar == <<"0", "1", "2", "3", "4", "5", "6", "7", "8", "9">>

RECURSIVE Digits(_)
Digits(n) == IF n < 10 THEN <<DigitChar[n + 1]>>
             ELSE Digits(n \div 10) \o <<DigitChar[(n % 10) + 1]>>

RECURSIVE JoinElems(_)
JoinElems(xs) == IF Len(xs) = 0 THEN <<>>
                 ELSE IF Len(xs) = 1 THEN Digits(xs[1])
                 ELSE Digits(xs[1]) \o <<",">> \o JoinElems(Tail(xs))

JsonNull == <<"n", "u", "l", "l">>

\* json.Marshal of a []T: null for the nil slice, otherwise [e1,e2,...].
JsonMarshalSlice(h, s) ==
    IF s.ptr = 0 THEN JsonNull
    ELSE <<"[">> \o JoinElems(Contents(h, s)) \o <<"]">>

IsDigit(c) == \E d \in 1..10 : DigitChar[d] = c
DigitVal(c) == (CHOOSE d \in 1..10 : DigitChar[d] = c) - 1

\* A JSON number token of the subset used here: digits, no leading zero.
IsNumber(t) == /\ Len(t) > 0
               /\ \A i \in 1..Len(t) : IsDigit(t[i])
               /\ (Len(t) > 1 => t[1] # "0")

RECURSIVE NumVal(_)
NumVal(t) == IF Len(t) = 0 THEN 0
             ELSE 10 * NumVal(SubSeq(t, 1, Len(t) - 1)) + DigitVal(t[Len(t)])

\* The comma-separated tokens of t.
RECURSIVE SplitComma(_, _)
SplitComma(t, cur) ==
    IF Len(t) = 0 THEN <<cur>>
    ELSE IF t[1] = "," THEN <<cur>> \o SplitComma(Tail(t), <<>>)
    ELSE SplitComma(Tail(t), Append(cur, t[1]))

\* json.Unmarshal's reading of b as a []T: null, an array of numbers, or a
\* syntax error.
JsonParse(b) ==
    IF b = JsonNull THEN [ok |-> TRUE, null |-> TRUE, elems |-> <<>>]
    ELSE IF Len(b) >= 2 /\ b[1] = "[" /\ b[Len(b)] = "]"
    THEN LET inner == SubSeq(b, 2, Len(b) - 1)
             toks == SplitComma(inner, <<>>)
         IN IF Len(inner) = 0
            THEN [ok |-> TRUE, null |-> FALSE, elems |-> <<>>]
            ELSE IF \A i \in 1..Len(toks) : IsNumber(toks[i])
            THEN [ok |-> TRUE, null |-> FALSE,
                  elems |-> [i \in 1..Len(toks) |-> NumVal(toks[i])]]
            ELSE [ok |-> FALSE, null |-> FALSE, elems |-> <<>>]
    ELSE [ok |-> FALSE, null |-> FALSE, elems |-> <<>>]

\* json.Unmarshal(b, x) for x *[]T: null leaves *x as it is, an array is
\* decoded into a newly allocated array, a syntax error leaves *x untouched.
JsonUnmarshalSlice(h, b, x) ==
    LET p == JsonParse(b) IN
    IF ~p.ok THEN [err |-> ErrSyntax, x |-> x, heap |-> h]
    ELSE IF p.null THEN [err |-> NoErr, x |-> x, heap |-> h]
    ELSE [err |-> NoErr,
          x |-> [ptr |-> Len(h) + 1, len |-> Len(p.elems), cap |-> Len(p.elems)],
          heap |-> Append(h, p.elems)]

\* Mutant: the length test comes before the nil test.
unmarshalJSON_EmptyFirst(h, b, x) ==
    IF Len(b) = 0 THEN [err |-> NoErr, x |-> x, heap |-> h]
    ELSE IF x.ptr # 0 THEN [err |-> ErrAlreadyInit, x |-> x, heap |-> h]
    ELSE JsonUnmarshalSlice(h, b, x)

\* Mutant: no nil test, a later decode replaces the backing slice.
unmarshalJSON_NoGuard(h, b, x) ==
    IF Len(b) = 0 THEN [err |-> NoErr, x |-> x, heap |-> h]
    ELSE JsonUnmarshalSlice(h, b, x)

unmarshalJSON(h, b, x) ==
    IF x.ptr # 0 THEN [err |-> ErrAlreadyInit, x |-> x, heap |-> h]
    ELSE IF Len(b) = 0 THEN [err |-> NoErr, x |-> x, heap |-> h]
    ELSE JsonUnmarshalSlice(h, b, x)

\* Mutant: a nil slice is encoded like an empty one.
SliceMarshalJSON_NilAsEmpty(h, x) ==
    <<"[">> \o JoinElems(Contents(h, x)) \o <<"]">>

SliceMarshalJSON(h, x) == JsonMarshalSlice(h, x)
SliceUnmarshalJSON(h, b, x) == unmarshalJSON(h, b, x)
SliceViewMarshalJSON(h, x) == JsonMarshalSlice(h, x)
SliceViewUnmarshalJSON(h, b, x) == unmarshalJSON(h, b, x)
IPPrefixSliceMarshalJSON(h, x) == SliceMarshalJSON(h, x)
IPPrefixSliceUnmarshalJSON(h, b, x) == SliceUnmarshalJSON(h, b, x)

SeqViewTypes == {"Slice", "SliceView", "IPPrefixSlice"}

MarshalJSONOf(t, h, x) ==
    CASE t = "Slice" -> SliceMarshalJSON(h, x)
      [] t = "SliceView" -> SliceViewMarshalJSON(h, x)
      [] t = "IPPrefixSlice" -> IPPrefixSliceMarshalJSON(h, x)

UnmarshalJSONOf(t, h, b, x) ==
    CASE t = "Slice" -> SliceUnmarshalJSON(h, b, x)
      [] t = "SliceView" -> SliceViewUnmarshalJSON(h, b, x)
      [] t = "IPPrefixSlice" -> IPPrefixSliceUnmarshalJSON(h, b, x)

\* ---------------------------------------------------------------- constructors
\* Mutant: the view is built over a copy of the caller's slice.
SliceOf_Copy(h, x) == GoAppend(h, NilSlice, Contents(h, x), 0)

\* SliceOf, SliceOfViews, IPPrefixSliceOf: the view holds the caller's slice
\* header; nothing is copied or allocated.
SliceOf(h, x) == [heap |-> h, s |-> x]

\* The owner's slice before any view exists: nil, or a slice of one array.
InitSlices ==
    {<<(<<>>), NilSlice>>} \cup
    UNION {{<<(<<a>>), [ptr |-> 1, len |-> n, cap |-> Len(a)]>> : n \in 0..Len(a)} :
              a \in Arrays}

\* ---------------------------------------------------------------- SpecJSON
\* Encoding the view of the owner's slice, decoding into a view v.
EncSeq(xs) == <<"[">> \o JoinElems(xs) \o <<"]">>

PayloadSeqs == UNION {[1..n -> Vals] : n \in 0..MaxPayload}

Payloads ==
    {EncSeq(a) : a \in PayloadSeqs} \cup
    {<<>>, JsonNull, <<"[">>, <<"[", "1", ",", "]">>, <<"[", "0", "1", "]">>,
     <<"n", "u", "l">>}

InitJSON ==
    /\ \E hs \in InitSlices :
          /\ hs[2].len = hs[2].cap
          /\ heap = hs[1]
          /\ S = hs[2]
          /\ v \in {NilSlice, SliceOf(hs[1], hs[2]).s}
    /\ r1 = NilSlice /\ r2 = NilSlice
    /\ mheap = <<>> /\ M = 0 /\ mv = 0
    /\ wrapv = [x \in Vals |-> x]
    /\ rng = NoRange
    /\ wire = None
    /\ ret = NoRet
    /\ \E t \in SeqViewTypes : gh = [inits |-> 0, t |-> t]

MarshalJSON ==
    /\ wire' = MarshalJSONOf(gh.t, heap, SliceOf(heap, S).s)
    /\ ret' = [op |-> "MarshalJSON", out |-> wire']
    /\ UNCHANGED <<heap, S, v, r1, r2, mheap, M, mv, wrapv, rng, gh>>

UnmarshalJSON(b) ==
    LET r == UnmarshalJSONOf(gh.t, heap, b, v) IN
    /\ heap' = r.heap
    /\ v' = r.x
    /\ ret' = [op |-> "UnmarshalJSON", b |-> b, err |-> r.err,
               pre |-> v, preC |-> Contents(heap, v)]
    /\ gh' = [gh EXCEPT !.inits = IF v.ptr = 0 /\ r.x.ptr # 0 THEN @ + 1 ELSE @]
    /\ UNCHANGED <<S, r1, r2, mheap, M, mv, wrapv, rng, wire>>

NextJSON ==
    \/ MarshalJSON
    \/ \E b \in Payloads \cup ({wire} \ {None}) : UnmarshalJSON(b)

SpecJSON == InitJSON /\ [][NextJSON]_vars

\* C1: every UnmarshalJSON call made while the backing slice is non-nil
\* (zero-length included) returns "already initialized" and leaves the
\* backing slice as it was; the backing slice goes from nil to non-nil at
\* most once.
C1_DecodeOnce ==
    /\ (ret.op = "UnmarshalJSON" /\ ret.pre.ptr # 0) =>
          /\ ret.err = ErrAlreadyInit
          /\ v = ret.pre
          /\ Contents(heap, v) = ret.preC
    /\ gh.inits <= 1

C1_Witness ==
    /\ ret.op = "UnmarshalJSON"
    /\ ret.pre.ptr # 0 /\ ret.pre.len = 0
    /\ ret.err = ErrAlreadyInit
    /\ gh.inits = 1

\* C2 as stated: an empty payload is a successful no-op whatever the state
\* of the view.
C2_EmptyAlwaysNoOp ==
    (ret.op = "UnmarshalJSON" /\ Len(ret.b) = 0) =>
        /\ ret.err = NoErr
        /\ v = ret.pre
        /\ Contents(heap, v) = ret.preC

\* C2 amended: an empty payload leaves the backing slice as it was; the call
\* succeeds when the view is nil-backed and fails with "already initialized"
\* when the backing slice is non-nil.  On a non-nil backing slice every
\* payload, empty or not, fails with "already initialized".
C2_EmptyPayload ==
    (ret.op = "UnmarshalJSON") =>
        /\ Len(ret.b) = 0 =>
              /\ v = ret.pre
              /\ Contents(heap, v) = ret.preC
              /\ ret.err = (IF ret.pre.ptr = 0 THEN NoErr ELSE ErrAlreadyInit)
        /\ ret.err = ErrAlreadyInit <=> ret.pre.ptr # 0

C2_Witness ==
    /\ ret.op = "UnmarshalJSON" /\ Len(ret.b) = 0
    /\ ret.pre.ptr = 0 /\ ret.err = NoErr /\ v.ptr = 0

\* C3: decoding MarshalJSON's output of the view of C into a nil-backed view
\* succeeds and gives a backing slice equal to C element for element, nil
\* exactly when C is nil and of the same length.
C3_RoundTrip ==
    (/\ ret.op = "UnmarshalJSON"
     /\ ret.pre.ptr = 0
     /\ wire # None /\ ret.b = wire) =>
        /\ ret.err = NoErr
        /\ Contents(heap, v) = Contents(heap, S)
        /\ (v.ptr = 0) = (S.ptr = 0)
        /\ v.len = S.len

C3_Witness ==
    /\ ret.op = "UnmarshalJSON"
    /\ ret.pre.ptr = 0 /\ wire # None /\ ret.b = wire
    /\ v.len = MaxCap /\ S.len = MaxCap /\ v.ptr # S.ptr

\* ---------------------------------------------------------------- maps
MapObjs == UNION {[ks -> Vals] : ks \in SUBSET Keys}

\* Go's m[k]: the value and whether k is present; the zero value when k is
\* missing or m is nil.
MapIndex(mh, m, k) ==
    IF m # 0 /\ k \in DOMAIN mh[m]
    THEN [val |-> mh[m][k], ok |-> TRUE]
    ELSE [val |-> Zero, ok |-> FALSE]

\* Go's len(m) and the key set of m.
MapKeys(mh, m) == IF m = 0 THEN {} ELSE DOMAIN mh[m]
GoMapLen(mh, m) == Cardinality(MapKeys(mh, m))

\* MapOf, MapFnOf: the view holds the caller's map reference.
MapOf(mh, m) == [mheap |-> mh, m |-> m]

\* The owner's map before any view exists: nil, or one map object.
InitMaps == {<<(<<>>), 0>>} \cup {<<(<<f>>), 1>> : f \in MapObjs}

\* json.Marshal of a map[K]V: null for the nil map, otherwise the entries
\* in key order, {"k1":v1,"k2":v2}.
RECURSIVE JoinEntries(_, _, _)
JoinEntries(f, k, first) ==
    IF k > MaxKey THEN <<>>
    ELSE IF k \in DOMAIN f
    THEN (IF first THEN <<>> ELSE <<",">>)
         \o <<"\"">> \o Digits(k) \o <<"\"", ":">> \o Digits(f[k])
         \o JoinEntries(f, k + 1, FALSE)
    ELSE JoinEntries(f, k + 1, first)

JsonMarshalMap(mh, m) ==
    IF m = 0 THEN JsonNull
    ELSE <<"{">> \o JoinEntries(mh[m], 1, TRUE) \o <<"}">>

\* json.Marshal of a struct that has no MarshalJSON method and no exported
\* field: the empty object.
JsonMarshalOpaqueStruct == <<"{", "}">>

\* Map and MapFn declare no MarshalJSON; their only fields (ж, wrapv) are
\* unexported.
MapMarshalJSON(mh, m) == JsonMarshalOpaqueStruct
MapFnMarshalJSON(mh, m) == JsonMarshalOpaqueStruct

\* ---------------------------------------------------------------- SpecEnc
\* Encoding a view of each kind over the owner's slice and the owner's map.
InitEnc ==
    /\ \E hs \in InitSlices :
          /\ heap = hs[1]
          /\ S = hs[2]
          /\ v = SliceOf(hs[1], hs[2]).s
    /\ \E ms \in InitMaps :
          /\ mheap = ms[1]
          /\ M = ms[2]
          /\ mv = MapOf(ms[1], ms[2]).m
    /\ r1 = NilSlice /\ r2 = NilSlice
    /\ wrapv = [x \in Vals |-> x]
    /\ rng = NoRange
    /\ wire = None
    /\ ret = NoRet
    /\ gh = [inits |-> 0]

EncodeSeqView(t) ==
    /\ wire' = MarshalJSONOf(t, heap, v)
    /\ ret' = [op |-> "Encode", t |-> t, out |-> wire']
    /\ UNCHANGED <<heap, S, v, r1, r2, mheap, M, mv, wrapv, rng, gh>>

EncodeMap ==
    /\ wire' = MapMarshalJSON(mheap, mv)
    /\ ret' = [op |-> "Encode", t |-> "Map", out |-> wire']
    /\ UNCHANGED <<heap, S, v, r1, r2, mheap, M, mv, wrapv, rng, gh>>

EncodeMapFn ==
    /\ wire' = MapFnMarshalJSON(mheap, mv)
    /\ ret' = [op |-> "Encode", t |-> "MapFn", out |-> wire']
    /\ UNCHANGED <<heap, S, v, r1, r2, mheap, M, mv, wrapv, rng, gh>>

NextEnc ==
    \/ \E t \in SeqViewTypes : EncodeSeqView(t)
    \/ EncodeMap
    \/ EncodeMapFn

SpecEnc == InitEnc /\ [][NextEnc]_vars

\* C4: for every kind of view (Slice, SliceView, IPPrefixSlice, Map, MapFn)
\* the encoding of the view equals the encoding of its backing collection.
C4_Transparent ==
    ret.op = "Encode" =>
        ret.out = (IF ret.t \in SeqViewTypes THEN JsonMarshalSlice(heap, S)
                   ELSE JsonMarshalMap(mheap, M))

\* ---------------------------------------------------------------- sequence views
\* The View method of an element of a SliceView: a read-only wrapper of the
\* element.
ViewOf(x) == [view |-> x]

\* What a view of type t hands out for the stored element x.
ElemOf(t, x) == IF t = "SliceView" THEN ViewOf(x) ELSE x

\* Mutant: an empty slice is taken for a nil one.
SliceIsNil_ByLen(x) == x.len = 0

SliceIsNil(x) == x.ptr = 0
SliceLen(x) == x.len

\* At(i), i counted from 0 as in Go; an index outside [0, len) panics.
SliceAt(h, x, i) == h[x.ptr][i + 1]
SliceViewAt(h, x, i) == ViewOf(h[x.ptr][i + 1])

SliceAppendTo(h, x, dst, slack) == GoAppend(h, dst, Contents(h, x), slack)

\* for _, x := range v.ж { dst = append(dst, x.View()) }
RECURSIVE SliceViewAppendFrom(_, _, _, _, _)
SliceViewAppendFrom(h, x, i, dst, slack) ==
    IF i > x.len THEN [heap |-> h, s |-> dst]
    ELSE LET r == GoAppend(h, dst, <<ViewOf(h[x.ptr][i])>>, slack)
         IN SliceViewAppendFrom(r.heap, x, i + 1, r.s, slack)

SliceViewAppendTo(h, x, dst, slack) == SliceViewAppendFrom(h, x, 1, dst, slack)

\* Mutant: the destination keeps the capacity of the backing array.
SliceAsSlice_KeepCap(h, x, slack) == SliceAppendTo(h, x, Reslice0(x), slack)

SliceAsSlice(h, x, slack) == SliceAppendTo(h, x, Reslice00(x), slack)
SliceViewAsSlice(h, x, slack) == SliceViewAppendTo(h, x, NilSlice, slack)
IPPrefixSliceAsSlice(h, x, slack) == SliceAsSlice(h, x, slack)

AsSliceOf(t, h, x, slack) ==
    CASE t = "Slice" -> SliceAsSlice(h, x, slack)
      [] t = "SliceView" -> SliceViewAsSlice(h, x, slack)
      [] t = "IPPrefixSlice" -> IPPrefixSliceAsSlice(h, x, slack)

\* ---------------------------------------------------------------- SpecAsSlice
\* Two callers take copies with AsSlice; the first writes to its copy.
InitAsSlice ==
    /\ \E hs \in InitSlices, t \in SeqViewTypes :
          /\ heap = hs[1]
          /\ S = hs[2]
          /\ v = SliceOf(hs[1], hs[2]).s
          /\ gh = [t |-> t, snap |-> Contents(hs[1], hs[2]), got2 |-> FALSE]
    /\ r1 = NilSlice /\ r2 = NilSlice
    /\ mheap = <<>> /\ M = 0 /\ mv = 0
    /\ wrapv = [x \in Vals |-> x]
    /\ rng = NoRange
    /\ wire = None
    /\ ret = NoRet

\* The state after a call left heap h and the slices s (owner), w (view),
\* a and b (callers).
Settle(h, s, w, a, b) ==
    LET L == Live(<<s, w, a, b>>) IN
    /\ heap' = CompactHeap(h, L)
    /\ S' = Move(L, s)
    /\ v' = Move(L, w)
    /\ r1' = Move(L, a)
    /\ r2' = Move(L, b)

AsSlice1(slack) ==
    LET r == AsSliceOf(gh.t, heap, v, slack) IN
    /\ Settle(r.heap, S, v, r.s, r2)
    /\ ret' = [op |-> "AsSlice", out |-> Contents(r.heap, r.s)]
    /\ UNCHANGED <<mheap, M, mv, wrapv, rng, wire, gh>>

AsSlice2(slack) ==
    LET r == AsSliceOf(gh.t, heap, v, slack) IN
    /\ Settle(r.heap, S, v, r1, r.s)
    /\ ret' = [op |-> "AsSlice", out |-> Contents(r.heap, r.s)]
    /\ gh' = [gh EXCEPT !.got2 = TRUE]
    /\ UNCHANGED <<mheap, M, mv, wrapv, rng, wire>>

\* The first caller's r1[i] = x.
CallerStore(i, x) ==
    /\ i < r1.len
    /\ heap' = [heap EXCEPT ![r1.ptr][i + 1] = ElemOf(gh.t, x)]
    /\ ret' = [op |-> "CallerStore"]
    /\ UNCHANGED <<S, v, r1, r2, mheap, M, mv, wrapv, rng, wire, gh>>

\* The first caller's r1 = append(r1, x).
CallerAppend(x, slack) ==
    LET r == GoAppend(heap, r1, <<ElemOf(gh.t, x)>>, slack) IN
    /\ r1.len < MaxCap
    /\ Settle(r.heap, S, v, r.s, r2)
    /\ ret' = [op |-> "CallerAppend"]
    /\ UNCHANGED <<mheap, M, mv, wrapv, rng, wire, gh>>

NextAsSlice ==
    \/ \E slack \in Slacks : AsSlice1(slack)
    \/ \E slack \in Slacks : AsSlice2(slack)
    \/ \E i \in 0..(MaxCap - 1), x \in Vals : CallerStore(i, x)
    \/ \E x \in Vals, slack \in Slacks : CallerAppend(x, slack)

SpecAsSlice == InitAsSlice /\ [][NextAsSlice]_vars

\* xs holds what a view of type t hands out for the elements ys.
SameElems(t, xs, ys) ==
    /\ Len(xs) = Len(ys)
    /\ \A i \in 1..Len(ys) : xs[i] = ElemOf(t, ys[i])

\* C5: AsSlice returns the elements of S in order; whatever a caller then
\* stores in or appends to the slice it got, S keeps its contents, a later
\* AsSlice again returns the elements of S, another caller's copy keeps its
\* contents, and no two of S and the returned slices share an array cell.
C5_AsSliceCopy ==
    /\ Contents(heap, S) = gh.snap
    /\ v = S
    /\ ret.op = "AsSlice" => SameElems(gh.t, ret.out, gh.snap)
    /\ gh.got2 => SameElems(gh.t, Contents(heap, r2), gh.snap)
    /\ Cells(r1) \cap Cells(S) = {}
    /\ Cells(r2) \cap Cells(S) = {}
    /\ Cells(r1) \cap Cells(r2) = {}

C5_Witness ==
    /\ ret.op = "CallerStore"
    /\ gh.t = "Slice"
    /\ S.len = MaxCap
    /\ r1.len = S.len /\ gh.got2
    /\ \A i \in 1..S.len : heap[r1.ptr][i] # heap[S.ptr][i]

\* ---------------------------------------------------------------- read accessors
SliceViewIsNil(x) == x.ptr = 0
SliceViewLen(x) == x.len
IPPrefixSliceIsNil(x) == SliceIsNil(x)
IPPrefixSliceLen(x) == SliceLen(x)
IPPrefixSliceAt(h, x, i) == SliceAt(h, x, i)
IPPrefixSliceAppendTo(h, x, dst, slack) == SliceAppendTo(h, x, dst, slack)

IsNilOf(t, x) ==
    CASE t = "Slice" -> SliceIsNil(x)
      [] t = "SliceView" -> SliceViewIsNil(x)
      [] t = "IPPrefixSlice" -> IPPrefixSliceIsNil(x)

LenOf(t, x) ==
    CASE t = "Slice" -> SliceLen(x)
      [] t = "SliceView" -> SliceViewLen(x)
      [] t = "IPPrefixSlice" -> IPPrefixSliceLen(x)

AtOf(t, h, x, i) ==
    CASE t = "Slice" -> SliceAt(h, x, i)
      [] t = "SliceView" -> SliceViewAt(h, x, i)
      [] t = "IPPrefixSlice" -> IPPrefixSliceAt(h, x, i)

AppendToOf(t, h, x, dst, slack) ==
    CASE t = "Slice" -> SliceAppendTo(h, x, dst, slack)
      [] t = "SliceView" -> SliceViewAppendTo(h, x, dst, slack)
      [] t = "IPPrefixSlice" -> IPPrefixSliceAppendTo(h, x, dst, slack)

\* A predicate f is the set of the values it accepts; calls lists the indices
\* whose element f was invoked on, in order.
\* Mutant: the scan starts at the second element.
SliceIndexFunc_SkipFirst(h, x, f) ==
    LET RECURSIVE Scan(_, _)
        Scan(i, calls) ==
            IF ~(i < SliceLen(x)) THEN [idx |-> -1, calls |-> calls]
            ELSE IF SliceAt(h, x, i) \in f
            THEN [idx |-> i, calls |-> Append(calls, i)]
            ELSE Scan(i + 1, Append(calls, i))
    IN Scan(1, <<>>)

SliceIndexFunc(h, x, f) ==
    LET RECURSIVE Scan(_, _)
        Scan(i, calls) ==
            IF ~(i < SliceLen(x)) THEN [idx |-> -1, calls |-> calls]
            ELSE IF SliceAt(h, x, i) \in f
            THEN [idx |-> i, calls |-> Append(calls, i)]
            ELSE Scan(i + 1, Append(calls, i))
    IN Scan(0, <<>>)

SliceContainsFunc(h, x, f) ==
    LET RECURSIVE Scan(_, _)
        Scan(i, calls) ==
            IF ~(i < SliceLen(x)) THEN [found |-> FALSE, calls |-> calls]
            ELSE IF SliceAt(h, x, i) \in f
            THEN [found |-> TRUE, calls |-> Append(calls, i)]
            ELSE Scan(i + 1, Append(calls, i))
    IN Scan(0, <<>>)

SliceContains(h, x, e) ==
    LET RECURSIVE Scan(_)
        Scan(i) ==
            IF ~(i < SliceLen(x)) THEN FALSE
            ELSE IF SliceAt(h, x, i) = e THEN TRUE
            ELSE Scan(i + 1)
    IN Scan(0)

\* ---------------------------------------------------------------- mapping views
MapHas(mh, m, k) == MapIndex(mh, m, k).ok
MapIsNil(m) == m = 0
MapLen(mh, m) == GoMapLen(mh, m)
MapGet(mh, m, k) == MapIndex(mh, m, k).val
MapGetOk(mh, m, k) == MapIndex(mh, m, k)

\* The MapFn accessors also report the arguments wrapv was invoked on.
MapFnHas(mh, m, w, k) == [val |-> MapIndex(mh, m, k).ok, calls |-> <<>>]
MapFnIsNil(m) == m = 0
MapFnLen(mh, m, w) == [val |-> GoMapLen(mh, m), calls |-> <<>>]

\* Mutant: a missing key returns the zero value without calling wrapv.
MapFnGet_SkipMissing(mh, m, w, k) ==
    LET e == MapIndex(mh, m, k) IN
    IF e.ok THEN [val |-> w[e.val], calls |-> <<e.val>>]
    ELSE [val |-> Zero, calls |-> <<>>]

MapFnGet(mh, m, w, k) ==
    LET e == MapIndex(mh, m, k) IN [val |-> w[e.val], calls |-> <<e.val>>]

MapFnGetOk(mh, m, w, k) ==
    LET e == MapIndex(mh, m, k) IN
    [val |-> w[e.val], ok |-> e.ok, calls |-> <<e.val>>]

\* The conversion functions a MapFn is built with.
WrapFns == {[x \in Vals |-> x + 10], [x \in Vals |-> 2 * x + 1]}

MapViewTypes == {"Map", "MapFn"}

\* A visitor is the set of keys on which it returns true (continue).
Visitors == SUBSET Keys

\* One iteration of Range's loop in Map.Range: the visitor f is called on
\* (k, val); when it returns false the loop returns.
\* Mutant: the visitor's result is ignored.
MapRangeVisit_NoStop(r, k, val) ==
    [r EXCEPT !.seen = Append(@, [k |-> k, val |-> val]),
              !.todo = @ \ {k}]

MapRangeVisit(r, k, val) ==
    [r EXCEPT !.seen = Append(@, [k |-> k, val |-> val]),
              !.todo = @ \ {k},
              !.pc = IF k \in r.f THEN "iter" ELSE "done"]

\* One iteration of the loop in MapFn.Range: the visitor sees wrapv(val).
MapFnRangeVisit(r, w, k, val) ==
    [r EXCEPT !.seen = Append(@, [k |-> k, val |-> w[val]]),
              !.calls = Append(@, val),
              !.todo = @ \ {k},
              !.pc = IF k \in r.f THEN "iter" ELSE "done"]

\* ---------------------------------------------------------------- SpecRead
\* An owner keeps writing to its collection (a slice or a map) while callers
\* read it through a view.
Put(f, k, x) == [j \in DOMAIN f \cup {k} |-> IF j = k THEN x ELSE f[j]]
Drop(f, k) == [j \in DOMAIN f \ {k} |-> f[j]]

\* What the accessors and the owner can observe of the collections.
Obs ==
    [nil |-> IsNilOf(gh.t, v), len |-> LenOf(gh.t, v),
     elems |-> Contents(heap, v), owner |-> Contents(heap, S),
     mnil |-> MapIsNil(mv), mlen |-> MapLen(mheap, mv),
     map |-> IF M = 0 THEN <<>> ELSE mheap[M]]

Idle == rng.pc # "iter"

InitRead ==
    /\ \/ /\ \E hs \in InitSlices, t \in SeqViewTypes :
                LET r == SliceOf(hs[1], hs[2]) IN
                /\ heap = r.heap
                /\ S = hs[2]
                /\ v = r.s
                /\ gh = [kind |-> "seq", t |-> t, moved |-> FALSE,
                         last |-> Contents(hs[1], hs[2]),
                         built |-> [nil |-> hs[2].ptr = 0, len |-> hs[2].len],
                         ch |-> -1, mlast |-> <<>>]
          /\ mheap = <<>> /\ M = 0 /\ mv = 0
          /\ wrapv \in {w \in WrapFns : w[Zero] = 10}
       \/ /\ \E ms \in InitMaps :
                LET r == MapOf(ms[1], ms[2]) IN
                /\ mheap = r.mheap
                /\ M = ms[2]
                /\ mv = r.m
                /\ gh = [kind |-> "map", t |-> "Slice", moved |-> FALSE,
                         last |-> <<>>,
                         built |-> [nil |-> ms[2] = 0, len |-> 0],
                         ch |-> -1,
                         mlast |-> IF ms[2] = 0 THEN <<>> ELSE ms[1][ms[2]]]
          /\ heap = <<>> /\ S = NilSlice /\ v = NilSlice
          /\ wrapv \in WrapFns
    /\ r1 = NilSlice /\ r2 = NilSlice
    /\ rng = NoRange
    /\ wire = None
    /\ ret = NoRet

\* The owner's S[i] = x.
OwnerStore(i, x) ==
    /\ gh.kind = "seq" /\ Idle
    /\ i < S.len
    /\ heap' = [heap EXCEPT ![S.ptr][i + 1] = x]
    /\ gh' = [gh EXCEPT !.last[i + 1] = x,
                        !.ch = IF ~gh.moved /\ i < v.len /\ x # gh.last[i + 1]
                               THEN i ELSE @]
    /\ ret' = [op |-> "OwnerStore"]
    /\ UNCHANGED <<S, v, r1, r2, mheap, M, mv, wrapv, rng, wire>>

\* The owner's S = append(S, x).
OwnerAppend(x, slack) ==
    LET r == GoAppend(heap, S, <<x>>, slack) IN
    /\ gh.kind = "seq" /\ Idle
    /\ S.len < MaxCap
    /\ Settle(r.heap, r.s, v, r1, r2)
    /\ gh' = [gh EXCEPT !.last = Append(@, x),
                        !.moved = @ \/ r.s.ptr # S.ptr]
    /\ ret' = [op |-> "OwnerAppend"]
    /\ UNCHANGED <<mheap, M, mv, wrapv, rng, wire>>

\* The owner hands out a new view of S.
CallSliceOf ==
    LET r == SliceOf(heap, S) IN
    /\ gh.kind = "seq" /\ Idle
    /\ Settle(r.heap, S, r.s, r1, r2)
    /\ gh' = [gh EXCEPT !.moved = FALSE, !.ch = -1,
                        !.built = [nil |-> S.ptr = 0, len |-> S.len]]
    /\ ret' = [op |-> "SliceOf"]
    /\ UNCHANGED <<mheap, M, mv, wrapv, rng, wire>>

CallIsNil ==
    /\ gh.kind = "seq" /\ Idle
    /\ ret' = [op |-> "IsNil", val |-> IsNilOf(gh.t, v), pre |-> Obs]
    /\ UNCHANGED <<heap, S, v, r1, r2, mheap, M, mv, wrapv, rng, wire, gh>>

CallLen ==
    /\ gh.kind = "seq" /\ Idle
    /\ ret' = [op |-> "Len", val |-> LenOf(gh.t, v), pre |-> Obs]
    /\ UNCHANGED <<heap, S, v, r1, r2, mheap, M, mv, wrapv, rng, wire, gh>>

CallAt(i) ==
    /\ gh.kind = "seq" /\ Idle
    /\ i < LenOf(gh.t, v)
    /\ ret' = [op |-> "At", i |-> i, val |-> AtOf(gh.t, heap, v, i), pre |-> Obs]
    /\ UNCHANGED <<heap, S, v, r1, r2, mheap, M, mv, wrapv, rng, wire, gh>>

\* AppendTo(nil); the caller drops the result.
CallAppendTo(slack) ==
    LET r == AppendToOf(gh.t, heap, v, NilSlice, slack) IN
    /\ gh.kind = "seq" /\ Idle
    /\ Settle(r.heap, S, v, r1, r2)
    /\ ret' = [op |-> "AppendTo", out |-> Contents(r.heap, r.s), pre |-> Obs]
    /\ UNCHANGED <<mheap, M, mv, wrapv, rng, wire, gh>>

\* AsSlice(); the caller drops the result.
CallAsSlice(slack) ==
    LET r == AsSliceOf(gh.t, heap, v, slack) IN
    /\ gh.kind = "seq" /\ Idle
    /\ Settle(r.heap, S, v, r1, r2)
    /\ ret' = [op |-> "AsSlice", out |-> Contents(r.heap, r.s), pre |-> Obs]
    /\ UNCHANGED <<mheap, M, mv, wrapv, rng, wire, gh>>

CallIndexFunc(f) ==
    LET r == SliceIndexFunc(heap, v, f) IN
    /\ gh.kind = "seq" /\ gh.t = "Slice" /\ Idle
    /\ ret' = [op |-> "IndexFunc", f |-> f, idx |-> r.idx, calls |-> r.calls,
               pre |-> Obs]
    /\ UNCHANGED <<heap, S, v, r1, r2, mheap, M, mv, wrapv, rng, wire, gh>>

CallContainsFunc(f) ==
    LET r == SliceContainsFunc(heap, v, f) IN
    /\ gh.kind = "seq" /\ gh.t = "Slice" /\ Idle
    /\ ret' = [op |-> "ContainsFunc", f |-> f, found |-> r.found,
               calls |-> r.calls, pre |-> Obs]
    /\ UNCHANGED <<heap, S, v, r1, r2, mheap, M, mv, wrapv, rng, wire, gh>>

CallSliceContains(e) ==
    /\ gh.kind = "seq" /\ gh.t = "Slice" /\ Idle
    /\ ret' = [op |-> "SliceContains", e |-> e,
               found |-> SliceContains(heap, v, e), pre |-> Obs]
    /\ UNCHANGED <<heap, S, v, r1, r2, mheap, M, mv, wrapv, rng, wire, gh>>

\* The owner's M[k] = x; a write to a nil map panics, so M is non-nil.
OwnerPut(k, x) ==
    /\ gh.kind = "map" /\ Idle
    /\ M # 0
    /\ mheap' = [mheap EXCEPT ![M] = Put(@, k, x)]
    /\ gh' = [gh EXCEPT !.mlast = Put(@, k, x)]
    /\ ret' = [op |-> "OwnerPut"]
    /\ rng' = NoRange
    /\ UNCHANGED <<heap, S, v, r1, r2, M, mv, wrapv, wire>>

\* The owner's delete(M, k).
OwnerDelete(k) ==
    /\ gh.kind = "map" /\ Idle
    /\ M # 0 /\ k \in DOMAIN mheap[M]
    /\ mheap' = [mheap EXCEPT ![M] = Drop(@, k)]
    /\ gh' = [gh EXCEPT !.mlast = Drop(@, k)]
    /\ ret' = [op |-> "OwnerDelete"]
    /\ rng' = NoRange
    /\ UNCHANGED <<heap, S, v, r1, r2, M, mv, wrapv, wire>>

MapRead(r) ==
    /\ gh.kind = "map" /\ Idle
    /\ ret' = r
    /\ rng' = NoRange
    /\ UNCHANGED <<heap, S, v, r1, r2, mheap, M, mv, wrapv, wire, gh>>

CallMapIsNil ==
    MapRead([op |-> "Map.IsNil", val |-> MapIsNil(mv), pre |-> Obs])
CallMapLen ==
    MapRead([op |-> "Map.Len", val |-> MapLen(mheap, mv), pre |-> Obs])
CallMapHas(k) ==
    MapRead([op |-> "Map.Has", k |-> k, val |-> MapHas(mheap, mv, k), pre |-> Obs])
CallMapGet(k) ==
    MapRead([op |-> "Map.Get", k |-> k, val |-> MapGet(mheap, mv, k), pre |-> Obs])
CallMapGetOk(k) ==
    LET e == MapGetOk(mheap, mv, k) IN
    MapRead([op |-> "Map.GetOk", k |-> k, val |-> e.val, ok |-> e.ok, pre |-> Obs])

CallMapFnIsNil ==
    MapRead([op |-> "MapFn.IsNil", val |-> MapFnIsNil(mv), calls |-> <<>>,
             pre |-> Obs])
CallMapFnLen ==
    LET e == MapFnLen(mheap, mv, wrapv) IN
    MapRead([op |-> "MapFn.Len", val |-> e.val, calls |-> e.calls, pre |-> Obs])
CallMapFnHas(k) ==
    LET e == MapFnHas(mheap, mv, wrapv, k) IN
    MapRead([op |-> "MapFn.Has", k |-> k, val |-> e.val, calls |-> e.calls,
             pre |-> Obs])
CallMapFnGet(k) ==
    LET e == MapFnGet(mheap, mv, wrapv, k) IN
    MapRead([op |-> "MapFn.Get", k |-> k, val |-> e.val, calls |-> e.calls,
             pre |-> Obs])
CallMapFnGetOk(k) ==
    LET e == MapFnGetOk(mheap, mv, wrapv, k) IN
    MapRead([op |-> "MapFn.GetOk", k |-> k, val |-> e.val, ok |-> e.ok,
             calls |-> e.calls, pre |-> Obs])

\* Range(f) is entered: the loop will go over the keys of the map.
RangeStart(t, f) ==
    /\ gh.kind = "map" /\ Idle
    /\ rng' = [pc |-> "iter", t |-> t, f |-> f, todo |-> MapKeys(mheap, mv),
               seen |-> <<>>, calls |-> <<>>]
    /\ ret' = [op |-> "Range", pre |-> Obs]
    /\ UNCHANGED <<heap, S, v, r1, r2, mheap, M, mv, wrapv, wire, gh>>

\* The loop takes a key not yet iterated, in an order Go does not specify.
RangeStep(k) ==
    /\ rng.pc = "iter"
    /\ k \in rng.todo
    /\ rng' = IF rng.t = "Map"
              THEN MapRangeVisit(rng, k, mheap[mv][k])
              ELSE MapFnRangeVisit(rng, wrapv, k, mheap[mv][k])
    /\ UNCHANGED <<heap, S, v, r1, r2, mheap, M, mv, wrapv, wire, ret, gh>>

\* The loop has gone over every key.
RangeEnd ==
    /\ rng.pc = "iter"
    /\ rng.todo = {}
    /\ rng' = [rng EXCEPT !.pc = "done"]
    /\ UNCHANGED <<heap, S, v, r1, r2, mheap, M, mv, wrapv, wire, ret, gh>>

NextRead ==
    \/ \E i \in 0..(MaxCap - 1), x \in Vals : OwnerStore(i, x)
    \/ \E x \in Vals, slack \in Slacks : OwnerAppend(x, slack)
    \/ CallSliceOf
    \/ CallIsNil
    \/ CallLen
    \/ \E i \in 0..(MaxCap - 1) : CallAt(i)
    \/ \E slack \in Slacks : CallAppendTo(slack)
    \/ \E slack \in Slacks : CallAsSlice(slack)
    \/ \E k \in Keys, x \in Vals : OwnerPut(k, x)
    \/ \E k \in Keys : OwnerDelete(k)
    \/ CallMapIsNil
    \/ CallMapLen
    \/ \E k \in Keys : CallMapHas(k)
    \/ \E k \in Keys : CallMapGet(k)
    \/ \E k \in Keys : CallMapGetOk(k)
    \/ CallMapFnIsNil
    \/ CallMapFnLen
    \/ \E f \in Visitors : RangeStart("Map", f)
    \/ \E k \in Keys : RangeStep(k)
    \/ RangeEnd

SpecRead == InitRead /\ [][NextRead]_vars

\* ---------------------------------------------------------------- SpecScan
\* Linear scans of a Slice over every slice the owner may hold.
InitScan == InitRead /\ gh.kind = "seq" /\ gh.t = "Slice"

NextScan ==
    \/ \E f \in SUBSET Vals : CallIndexFunc(f)
    \/ \E f \in SUBSET Vals : CallContainsFunc(f)
    \/ \E e \in Vals : CallSliceContains(e)

SpecScan == InitScan /\ [][NextScan]_vars

\* ---------------------------------------------------------------- SpecMap
\* Reads and Range through a Map and a MapFn over every map the owner may hold.
InitMap == InitRead /\ gh.kind = "map"

NextMap ==
    \/ \E k \in Keys : CallMapHas(k)
    \/ \E k \in Keys : CallMapGet(k)
    \/ \E k \in Keys : CallMapGetOk(k)
    \/ CallMapFnLen
    \/ \E k \in Keys : CallMapFnHas(k)
    \/ \E k \in Keys : CallMapFnGet(k)
    \/ \E k \in Keys : CallMapFnGetOk(k)
    \/ \E t \in MapViewTypes, f \in Visitors : RangeStart(t, f)
    \/ \E k \in Keys : RangeStep(k)
    \/ RangeEnd

SpecMap == InitMap /\ [][NextMap]_vars

\* ---------------------------------------------------------------- claims on reads
ReadOps ==
    {"IsNil", "Len", "At", "AppendTo", "AsSlice", "IndexFunc", "ContainsFunc",
     "SliceContains", "Map.IsNil", "Map.Len", "Map.Has", "Map.Get", "Map.GetOk",
     "MapFn.IsNil", "MapFn.Len", "MapFn.Has", "MapFn.Get", "MapFn.GetOk", "Range"}

\* C6: IsNil() is true exactly when the view was built over a nil slice or
\* map; a view over a non-nil empty collection reports IsNil() false and
\* Len() 0, a view over nil reports IsNil() true and Len() 0; no read
\* accessor changes what IsNil() and Len() report.
C6_NilVsEmpty ==
    /\ gh.kind = "seq" =>
          /\ IsNilOf(gh.t, v) = gh.built.nil
          /\ LenOf(gh.t, v) = gh.built.len
          /\ gh.built.nil => LenOf(gh.t, v) = 0
          /\ ret.op = "IsNil" => ret.val = gh.built.nil
          /\ ret.op = "Len" => ret.val = gh.built.len
    /\ gh.kind = "map" =>
          /\ MapIsNil(mv) = gh.built.nil
          /\ MapFnIsNil(mv) = gh.built.nil
          /\ MapLen(mheap, mv) = Cardinality(DOMAIN gh.mlast)
          /\ MapFnLen(mheap, mv, wrapv).val = Cardinality(DOMAIN gh.mlast)
          /\ gh.built.nil => MapLen(mheap, mv) = 0
          /\ ret.op \in {"Map.IsNil", "MapFn.IsNil"} => ret.val = gh.built.nil
          /\ ret.op \in {"Map.Len", "MapFn.Len"} =>
                ret.val = Cardinality(DOMAIN gh.mlast)
    /\ ret.op \in ReadOps =>
          /\ ret.pre.nil = IsNilOf(gh.t, v) /\ ret.pre.len = LenOf(gh.t, v)
          /\ ret.pre.mnil = MapIsNil(mv) /\ ret.pre.mlen = MapLen(mheap, mv)

C6_Witness ==
    /\ gh.kind = "seq" /\ ret.op = "IsNil" /\ ret.val = FALSE
    /\ LenOf(gh.t, v) = 0 /\ gh.built.len = 0 /\ ~gh.built.nil

\* At(i) returns what the owner last stored at S[i], for every index of the view.
SeqReadsThrough ==
    \A i \in 0..(LenOf(gh.t, v) - 1) :
        AtOf(gh.t, heap, v, i) = ElemOf(gh.t, gh.last[i + 1])

\* Has, Get and GetOk return the owner's current entry for every key.
MapReadsThrough ==
    \A k \in Keys :
        LET here == k \in DOMAIN gh.mlast
            val == IF here THEN gh.mlast[k] ELSE Zero
        IN /\ MapHas(mheap, mv, k) = here
           /\ MapGet(mheap, mv, k) = val
           /\ MapGetOk(mheap, mv, k) = [val |-> val, ok |-> here]

\* A read accessor leaves the owner's and the view's collections as they were.
ReadsKeepBacking == ret.op \in ReadOps => ret.pre = Obs

\* C9 as stated: after any owner writes, At(i) is the value the owner last
\* stored at S[i], Get, GetOk and Has follow the owner's map, and no read
\* accessor changes the backing collection.
C9_ReadsThroughAlways ==
    /\ gh.kind = "seq" => SeqReadsThrough
    /\ gh.kind = "map" => MapReadsThrough
    /\ ReadsKeepBacking

\* C9 amended: the same, for a sequence view as long as the owner's slice
\* still has the array the view was built over (no append of the owner has
\* grown S beyond its capacity since).
C9_ReadsThrough ==
    /\ (gh.kind = "seq" /\ ~gh.moved) => SeqReadsThrough
    /\ gh.kind = "map" => MapReadsThrough
    /\ ReadsKeepBacking

C9_Witness ==
    /\ gh.kind = "seq" /\ ~gh.moved
    /\ ret.op = "At" /\ ret.i = gh.ch
    /\ ret.val = ElemOf(gh.t, gh.last[ret.i + 1])

\* The indices 0..n as a sequence.
Upto(n) == [j \in 1..(n + 1) |-> j - 1]

\* The indices of the view's elements that predicate f accepts.
Sat(f) == {i \in 0..(v.len - 1) : Contents(heap, v)[i + 1] \in f}

\* What a scan with predicate f returns and the calls of f it makes.
ScanResult(f) ==
    IF Sat(f) = {} THEN [idx |-> -1, calls |-> Upto(v.len - 1)]
    ELSE LET m == CHOOSE i \in Sat(f) : \A j \in Sat(f) : i <= j
         IN [idx |-> m, calls |-> Upto(m)]

\* C10: IndexFunc returns the least index whose element satisfies the
\* predicate and -1 exactly when none does; ContainsFunc is true exactly when
\* IndexFunc is not -1; SliceContains(v, e) is true exactly when some element
\* equals e; the predicate is not invoked on an element after the first match.
C10_Scans ==
    /\ ret.op = "IndexFunc" =>
          /\ ret.idx = ScanResult(ret.f).idx
          /\ ret.calls = ScanResult(ret.f).calls
          /\ ret.idx = -1 <=> Sat(ret.f) = {}
    /\ ret.op = "ContainsFunc" =>
          /\ ret.found <=> Sat(ret.f) # {}
          /\ ret.found <=> SliceIndexFunc(heap, v, ret.f).idx # -1
          /\ ret.calls = ScanResult(ret.f).calls
    /\ ret.op = "SliceContains" =>
          (ret.found <=> \E i \in 1..v.len : Contents(heap, v)[i] = ret.e)

C10_Witness ==
    /\ ret.op = "IndexFunc" /\ ret.idx = MaxCap - 1 /\ Len(ret.calls) = MaxCap

\* C7: Range calls the visitor at most once per entry and only on entries of
\* the map; no call follows a call that returned false, so a visitor that
\* stops at once sees one entry of a map of two or more; a visitor that never
\* returns false sees every entry once.
C7_RangeStops ==
    rng.pc \in {"iter", "done"} =>
        LET n == Len(rng.seen)
            keys == MapKeys(mheap, mv)
        IN /\ \A i \in 1..n :
                 /\ rng.seen[i].k \in keys
                 /\ rng.seen[i].val =
                       (IF rng.t = "Map" THEN mheap[mv][rng.seen[i].k]
                        ELSE wrapv[mheap[mv][rng.seen[i].k]])
           /\ \A i, j \in 1..n : i # j => rng.seen[i].k # rng.seen[j].k
           /\ \A i \in 1..(n - 1) : rng.seen[i].k \in rng.f
           /\ (rng.pc = "iter" /\ n > 0) => rng.seen[n].k \in rng.f
           /\ (rng.pc = "done" /\ \A i \in 1..n : rng.seen[i].k \in rng.f) =>
                 {rng.seen[i].k : i \in 1..n} = keys
           /\ (rng.pc = "done" /\ rng.f = {} /\ Cardinality(keys) >= 2) => n = 1

C7_Witness ==
    /\ rng.pc = "done" /\ rng.f = {} /\ rng.t = "Map"
    /\ GoMapLen(mheap, mv) >= 2 /\ Len(rng.seen) = 1

\* C8: MapFn.Get(k) is wrapv(M[k]); for a missing key wrapv is invoked on the
\* zero value, Get returns wrapv(zero) and GetOk returns (wrapv(zero), false);
\* for a present key GetOk returns (wrapv(M[k]), true); Has and Len never
\* invoke wrapv.
C8_MapFnReads ==
    LET here == ret.k \in DOMAIN gh.mlast
        val == IF here THEN gh.mlast[ret.k] ELSE Zero
    IN /\ ret.op = "MapFn.Get" =>
             /\ ret.val = wrapv[val]
             /\ ret.calls = <<val>>
       /\ ret.op = "MapFn.GetOk" =>
             /\ ret.val = wrapv[val]
             /\ ret.ok = here
             /\ ret.calls = <<val>>
       /\ ret.op = "MapFn.Has" => ret.val = here /\ ret.calls = <<>>
       /\ ret.op = "MapFn.Len" => ret.calls = <<>>

C8_Witness ==
    /\ ret.op = "MapFn.GetOk" /\ ~ret.ok /\ ret.val = wrapv[Zero]
    /\ mv # 0 /\ GoMapLen(mheap, mv) > 0

====
